---------------------------- MODULE Spec2Model ----------------------------
(***************************************************************************)
(* State-machine model of src/bot.py: a python-telegram-bot                *)
(* ConversationHandler that collects a sales listing and sends it to the   *)
(* administrator chat.                                                     *)
(*                                                                         *)
(* A text is a tuple of one-character strings, so the validators work on   *)
(* characters as the Python code does.  Non-ASCII characters of the        *)
(* source (emoji, Cyrillic letters) are written as ASCII stand-ins; every  *)
(* stand-in is one character of the source text.                           *)
(*                                                                         *)
(* The application is built with concurrent_updates(True): every update is *)
(* processed in its own asyncio task.  A handler runs atomically from the  *)
(* conversation lookup to its first network await; the await is the point  *)
(* where other updates of the same user can be looked up and handled.  The *)
(* conversation state is written when the handler returns.                 *)
(***************************************************************************)
EXTENDS Integers, Sequences, FiniteSets, TLC

VARIABLES
    conv,       \* conv[u]: the ConversationHandler state of user u (END: none)
    user_data,  \* user_data[u]: context.user_data, a dict (function on its keys)
    tasks,      \* tasks[u]: the handler coroutines of u suspended at an await
    admin,      \* what the ADMIN_CHAT_ID chat has received, in order
    sid,        \* sid[u]: how many times start() has run for u (session number)
    accepted,   \* accepted[u]: per field, the input last accepted in this session
    overlaps    \* how many updates were taken while another one of the same
                \* user was still being handled

vars == <<conv, user_data, tasks, admin, sid, accepted, overlaps>>

---------------------------------------------------------------------------
(* Conversation states, src/bot.py:28-40, and ConversationHandler.END.     *)
START == 0
CHOOSE_CATEGORY == 1
GET_ITEM_NAME == 2
GET_PHOTOS == 3
GET_DESCRIPTION == 4
GET_PRICE == 5
GET_CITY == 6
GET_DELIVERY == 7
GET_PICKUP_ADDRESS == 8
GET_CONTACTS == 9
CONFIRM == 10
END == -1

\* "count <= 10" of handle_photos and "[:10]" of confirm_application
PHOTO_LIMIT == 10
MEDIA_LIMIT == 10

Stages == CHOOSE_CATEGORY..CONFIRM

---------------------------------------------------------------------------
(* Bounds of the model.                                                    *)
MaxInFlight == 2    \* updates of one user being handled at the same time
MaxOverlaps == 1    \* updates taken while another one is being handled
MaxStarts == 2      \* start() runs per user
MaxAdmin == 4       \* messages the administrator chat receives
MaxFlowPhotos == 2  \* distinct photos of a session in the full-flow runs
MaxPhotoRefs == 12  \* distinct photos of a session in the photo runs
MaxStartsTwoUsers == 1  \* start() runs per user in the two-user runs

---------------------------------------------------------------------------
(* Texts.                                                                  *)
Rep(c, n) == [i \in 1..n |-> c]

BACK == <<"<", "~", " ", "N", "a", "z", "a", "d">>
CANCEL == <<"X", " ", "O", "t", "m", "e", "n", "a">>
CANCEL_CONFIRM == <<"X", " ", "O", "t", "m", "e", "n", "i", "t", "'">>
NEXT == <<"^", " ", "D", "a", "l", "e", "e">>
NO_INFO_BUTTON == <<"X", " ", "N", "e", "t", " ", "i", "n", "f", "o">>
NO_INFO == <<"N", "e", "t", " ", "i", "n", "f", "o">>
PICKUP == <<"#", " ", "S", "a", "m", "o", "v", "y", "v", "o", "z">>
DELIVERY == <<"@", " ", "D", "o", "s", "t", "a", "v", "k", "a">>
SEND == <<"V", " ", "O", "t", "p", "r", "a", "v", "i", "t", "'">>

COINS == <<"$", " ", "C", "o", "i", "n", "s">>
OLD_RUBLE == <<"O", "l", "d", " ", "R", "u", "b", "l", "e">>
VASE == <<"V", "a", "s", "e">>
RARE == <<"R", "a", "r", "e">>
P500 == <<"5", "0", "0">>
P007 == <<"0", "0", "7">>
P0 == <<"0">>
PNEG5 == <<"-", "5">>
P12A == <<"1", "2", "a">>
PSUP2 == <<"sup2">>
TOWN == <<"T", "o", "w", "n">>
OMSK == <<"O", "m", "s", "k">>
MAIN_ST == <<"1", " ", "M", "a", "i", "n", " ", "S", "t">>
ELM_RD == <<"2", " ", "E", "l", "m", " ", "R", "d">>
PHONE1 == <<"+", "7", "9", "1", "6", "1", "2", "3", "4", "5", "6", "7">>
PHONE2 == <<"8", "9", "1", "6", "1", "2", "3", "4", "5", "6", "7">>
SHORT_PHONE == <<"1", "2", "3", "4", "5">>
ONE_CHAR == <<" ", "x", " ">>
ABC == <<"a", "b", "c">>
OK == <<"o", "k">>
LONG_NAME == Rep("a", 201)
LONG_DESCRIPTION == Rep("a", 501)
LONG_CITY == Rep("a", 51)

Digits == {"0", "1", "2", "3", "4", "5", "6", "7", "8", "9"}
\* str.isdigit() also accepts digit characters int() cannot read, such as a
\* superscript two, written "sup2" here.
OtherDigits == {"sup2"}
Whitespace == {" ", "\n"}

---------------------------------------------------------------------------
(* Validators, src/bot.py:61-68.                                           *)
RECURSIVE lstrip(_)
lstrip(s) == IF s # <<>> /\ Head(s) \in Whitespace THEN lstrip(Tail(s)) ELSE s

RECURSIVE rstrip(_)
rstrip(s) ==
    IF s # <<>> /\ s[Len(s)] \in Whitespace
    THEN rstrip(SubSeq(s, 1, Len(s) - 1))
    ELSE s

strip(s) == rstrip(lstrip(s))

\* validate_text without the strip()
validate_text_unstripped(text, min_len, max_len) ==
    min_len <= Len(text) /\ Len(text) <= max_len

validate_text(text, min_len, max_len) ==
    min_len <= Len(strip(text)) /\ Len(strip(text)) <= max_len

isdigit(s) == s # <<>> /\ \A i \in 1..Len(s) : s[i] \in Digits \cup OtherDigits

DigitValue(c) == CHOOSE n \in 0..9 : <<"0", "1", "2", "3", "4", "5", "6", "7", "8", "9">>[n + 1] = c

RECURSIVE int(_)
int(s) == IF s = <<>> THEN 0 ELSE 10 * int(SubSeq(s, 1, Len(s) - 1)) + DigitValue(s[Len(s)])

\* int(price) raises ValueError on a digit character that is no decimal digit.
int_raises(s) == \E i \in 1..Len(s) : s[i] \notin Digits

validate_price_raises(price) == isdigit(price) /\ int_raises(price)

validate_price(price) == isdigit(price) /\ ~int_raises(price) /\ int(price) > 0

PhoneChars == Digits \cup Whitespace \cup {"-", "(", ")"}

\* re.match(r'^\+?[\d\s\-\(\)]{7,15}$', phone); "$" also matches before one
\* trailing newline.
validate_phone(phone) ==
    LET body == IF phone # <<>> /\ Head(phone) = "+" THEN Tail(phone) ELSE phone
    IN  /\ \A i \in 1..Len(body) : body[i] \in PhoneChars
        /\ \/ Len(body) \in 7..15
           \/ Len(body) = 16 /\ body[16] = "\n"

---------------------------------------------------------------------------
(* Users and what Telegram reports of them (update.effective_user).        *)
Users == {"u1", "u2"}

full_name(u) == IF u = "u1" THEN "Ann Lee" ELSE "Bob Ray"

\* "" stands for a user without a username.
username(u) == IF u = "u1" THEN "ann" ELSE ""

(* context.user_data is a dict: a function whose domain is its keys.       *)
EmptyDict == <<>>

Has(d, k) == k \in DOMAIN d

Get(d, k, default) == IF Has(d, k) THEN d[k] ELSE default

Put(d, k, v) == [x \in (DOMAIN d) \cup {k} |-> IF x = k THEN v ELSE d[x]]

Pop(d, k) == [x \in (DOMAIN d) \ {k} |-> d[x]]

Range(s) == {s[i] : i \in 1..Len(s)}

Min(a, b) == IF a <= b THEN a ELSE b

Remove(s, i) == SubSeq(s, 1, i - 1) \o SubSeq(s, i + 1, Len(s))

---------------------------------------------------------------------------
(* Updates.  A text message has text and no photo; a photo message has no  *)
(* text (file_id is the file_id of its last size).  A command is a text    *)
(* message that starts with "/".                                           *)
Text(t) == [type |-> "text", text |-> t, file_id |-> 0]

Photo(ref) == [type |-> "photo", text |-> <<>>, file_id |-> ref]

CMD_START == <<"/", "s", "t", "a", "r", "t">>
CMD_CANCEL == <<"/", "c", "a", "n", "c", "e", "l">>

IsCommand(e) == e.type = "text" /\ e.text # <<>> /\ Head(e.text) = "/"

\* filters.Regex('^(X Otmena|X Otmenit')$') of the fallbacks
CancelRegex(e) == e.type = "text" /\ e.text \in {CANCEL, CANCEL_CONFIRM}

StateHandler(st) ==
    CASE st = CHOOSE_CATEGORY -> "handle_category"
      [] st = GET_ITEM_NAME -> "handle_item_name"
      [] st = GET_PHOTOS -> "handle_photos"
      [] st = GET_DESCRIPTION -> "handle_description"
      [] st = GET_PRICE -> "handle_price"
      [] st = GET_CITY -> "handle_city"
      [] st = GET_DELIVERY -> "handle_delivery"
      [] st = GET_PICKUP_ADDRESS -> "handle_pickup_address"
      [] st = GET_CONTACTS -> "handle_contacts"
      [] st = CONFIRM -> "confirm_application"
      [] OTHER -> "none"

\* The filter of the state's MessageHandler: filters.PHOTO | filters.TEXT at
\* GET_PHOTOS (commands included), filters.TEXT & ~filters.COMMAND elsewhere.
StateFilter(st, e) ==
    IF st = GET_PHOTOS
    THEN e.type \in {"photo", "text"}
    ELSE e.type = "text" /\ ~IsCommand(e)

\* ConversationHandler.check_update for the handler built in main(): with
\* allow_reentry the entry point is tried first, then the handlers of the
\* current state, then the fallbacks.  "none": the update is not handled.
Handler(st, e) ==
    IF e.type = "text" /\ e.text = CMD_START THEN "start"
    ELSE IF st = END THEN "none"
    ELSE IF StateFilter(st, e) THEN StateHandler(st)
    ELSE IF (e.type = "text" /\ e.text = CMD_CANCEL) \/ CancelRegex(e) THEN "cancel"
    ELSE "none"

---------------------------------------------------------------------------
(* Handler coroutines suspended at an await.                               *)
(*   update : the update being handled                                     *)
(*   h    : the handler                                                    *)
(*   at   : the conversation state the update was looked up in             *)
(*   kind : what the handler decided about its input                       *)
(*   pc   : the call it awaits: "reply" (update.message.reply_text),       *)
(*          "send_message", "send_media_group" (to the administrator),     *)
(*          "reply_done" (the last reply of confirm_application),          *)
(*          "error_handler" (the notice error_handler sends)               *)
(*   ret  : the state the handler returns if nothing raises                *)
(*   sid  : the session number of the user when the update was taken       *)
(*   text, media : the arguments of the send to the administrator          *)
Task(e, h, st, kind, pc, ret, s) ==
    [update |-> e, h |-> h, at |-> st, kind |-> kind, pc |-> pc, ret |-> ret,
     sid |-> s, text |-> EmptyDict, media |-> <<>>]

Await(u, task) == tasks' = [tasks EXCEPT ![u] = Append(@, task)]

\* await update.message.reply_text(...); return ret
Reply(u, e, h, kind, ret) ==
    Await(u, Task(e, h, conv[u], kind, "reply", ret, sid[u]))

\* an exception raised before the handler's first await: the except branch
\* awaits error_handler and returns END
Raise(u, e, h) ==
    Await(u, Task(e, h, conv[u], "fault", "error_handler", END, sid[u]))

\* the handler returns st without awaiting anything
ReturnNow(u, st) == conv' = [conv EXCEPT ![u] = st] /\ UNCHANGED tasks

\* The update is taken for handling, possibly while another one of the user
\* is still being handled.
Taken(u) == overlaps' = IF tasks[u] = <<>> THEN overlaps ELSE overlaps + 1

\* SetData on a dictionary shared by all users instead of context.user_data.
SetData_shared(u, d) == user_data' = [v \in Users |-> d]

SetData(u, d) == user_data' = [user_data EXCEPT ![u] = d]

Accept(u, field, value) == accepted' = [accepted EXCEPT ![u] = Put(@, field, value)]

Init ==
    /\ conv = [u \in Users |-> END]
    /\ user_data = [u \in Users |-> EmptyDict]
    /\ tasks = [u \in Users |-> <<>>]
    /\ admin = <<>>
    /\ sid = [u \in Users |-> 0]
    /\ accepted = [u \in Users |-> EmptyDict]
    /\ overlaps = 0

---------------------------------------------------------------------------
(* src/bot.py:533-546.  cancel() is a fallback handler and is also called  *)
(* by the state handlers; CancelBody is its effect for a caller h.         *)
CancelBody(u, e, h) ==
    /\ SetData(u, EmptyDict)
    /\ Reply(u, e, h, "cancel", END)
    /\ UNCHANGED <<conv, admin, sid, accepted>>

cancel(u, e) ==
    /\ Handler(conv[u], e) = "cancel"
    /\ Taken(u)
    /\ CancelBody(u, e, "cancel")

\* start without context.user_data.clear().
start_keeps(u, e) ==
    /\ Handler(conv[u], e) = "start"
    /\ Taken(u)
    /\ sid' = [sid EXCEPT ![u] = @ + 1]
    /\ accepted' = [accepted EXCEPT ![u] = EmptyDict]
    /\ Await(u, Task(e, "start", conv[u], "start", "reply", CHOOSE_CATEGORY, sid[u] + 1))
    /\ UNCHANGED <<conv, user_data, admin>>

(* src/bot.py:111-124 *)
start(u, e) ==
    /\ Handler(conv[u], e) = "start"
    /\ Taken(u)
    /\ SetData(u, EmptyDict)
    /\ sid' = [sid EXCEPT ![u] = @ + 1]
    /\ accepted' = [accepted EXCEPT ![u] = EmptyDict]
    /\ Await(u, Task(e, "start", conv[u], "start", "reply", CHOOSE_CATEGORY, sid[u] + 1))
    /\ UNCHANGED <<conv, admin>>

\* handle_category that accepts the offered category only.
handle_category_options(u, e) ==
    /\ Handler(conv[u], e) = "handle_category"
    /\ Taken(u)
    /\ IF e.text = CANCEL
       THEN CancelBody(u, e, "handle_category")
       ELSE IF e.text # COINS
       THEN /\ Reply(u, e, "handle_category", "reject", CHOOSE_CATEGORY)
            /\ UNCHANGED <<conv, user_data, admin, sid, accepted>>
       ELSE /\ SetData(u, Put(user_data[u], "category", e.text))
            /\ Accept(u, "category", e.text)
            /\ Reply(u, e, "handle_category", "accept", GET_ITEM_NAME)
            /\ UNCHANGED <<conv, admin, sid>>

(* src/bot.py:126-141 *)
handle_category(u, e) ==
    /\ Handler(conv[u], e) = "handle_category"
    /\ Taken(u)
    /\ IF e.text = CANCEL
       THEN CancelBody(u, e, "handle_category")
       ELSE /\ SetData(u, Put(user_data[u], "category", e.text))
            /\ Accept(u, "category", e.text)
            /\ Reply(u, e, "handle_category", "accept", GET_ITEM_NAME)
            /\ UNCHANGED <<conv, admin, sid>>

user_name(u) ==
    IF username(u) # "" THEN <<full_name(u), username(u)>> ELSE <<full_name(u)>>

(* src/bot.py:143-173 *)
handle_item_name(u, e) ==
    /\ Handler(conv[u], e) = "handle_item_name"
    /\ Taken(u)
    /\ IF e.text = BACK
       THEN /\ Reply(u, e, "handle_item_name", "back", CHOOSE_CATEGORY)
            /\ UNCHANGED <<conv, user_data, admin, sid, accepted>>
       ELSE IF e.text = CANCEL
       THEN CancelBody(u, e, "handle_item_name")
       ELSE IF ~validate_text(e.text, 2, 200)
       THEN /\ Reply(u, e, "handle_item_name", "reject", GET_ITEM_NAME)
            /\ UNCHANGED <<conv, user_data, admin, sid, accepted>>
       ELSE /\ SetData(u, Put(Put(Put(user_data[u], "item_name", e.text),
                                  "user_name", user_name(u)), "photos", <<>>))
            /\ Accept(u, "item_name", e.text)
            /\ Reply(u, e, "handle_item_name", "accept", GET_PHOTOS)
            /\ UNCHANGED <<conv, admin, sid>>

\* AddPhoto without the membership test.
AddPhoto_always(photos, photo) == Append(photos, photo)

\* photos.append(photo) unless photo is already in photos (src/bot.py:209-210)
AddPhoto(photos, photo) ==
    IF photo \notin Range(photos) THEN Append(photos, photo) ELSE photos

\* handle_photos whose Next button does not ask for a photo.
handle_photos_no_minimum(u, e) ==
    /\ Handler(conv[u], e) = "handle_photos"
    /\ Taken(u)
    /\ IF e.type = "text"
       THEN IF e.text = BACK
            THEN /\ SetData(u, Pop(user_data[u], "photos"))
                 /\ Reply(u, e, "handle_photos", "back", GET_ITEM_NAME)
                 /\ UNCHANGED <<conv, admin, sid, accepted>>
            ELSE IF e.text = CANCEL
            THEN CancelBody(u, e, "handle_photos")
            ELSE IF e.text = NEXT
            THEN /\ Reply(u, e, "handle_photos", "accept", GET_DESCRIPTION)
                 /\ UNCHANGED <<conv, user_data, admin, sid, accepted>>
            ELSE /\ ReturnNow(u, GET_PHOTOS)
                 /\ UNCHANGED <<user_data, admin, sid, accepted>>
       ELSE LET d == IF Has(user_data[u], "photos")
                     THEN user_data[u]
                     ELSE Put(user_data[u], "photos", <<>>)
            IN  /\ SetData(u, Put(d, "photos", AddPhoto(d["photos"], e.file_id)))
                /\ IF e.file_id \notin Range(d["photos"])
                   THEN /\ Reply(u, e, "handle_photos",
                                 IF Len(d["photos"]) + 1 <= PHOTO_LIMIT
                                 THEN "photo" ELSE "limit", GET_PHOTOS)
                        /\ UNCHANGED conv
                   ELSE ReturnNow(u, GET_PHOTOS)
                /\ UNCHANGED <<admin, sid, accepted>>

(* src/bot.py:175-229 *)
handle_photos(u, e) ==
    /\ Handler(conv[u], e) = "handle_photos"
    /\ Taken(u)
    /\ IF e.type = "text"
       THEN IF e.text = BACK
            THEN /\ SetData(u, Pop(user_data[u], "photos"))
                 /\ Reply(u, e, "handle_photos", "back", GET_ITEM_NAME)
                 /\ UNCHANGED <<conv, admin, sid, accepted>>
            ELSE IF e.text = CANCEL
            THEN CancelBody(u, e, "handle_photos")
            ELSE IF e.text = NEXT
            THEN /\ IF Len(Get(user_data[u], "photos", <<>>)) < 1
                    THEN Reply(u, e, "handle_photos", "reject", GET_PHOTOS)
                    ELSE Reply(u, e, "handle_photos", "accept", GET_DESCRIPTION)
                 /\ UNCHANGED <<conv, user_data, admin, sid, accepted>>
            ELSE /\ ReturnNow(u, GET_PHOTOS)
                 /\ UNCHANGED <<user_data, admin, sid, accepted>>
       ELSE LET d == IF Has(user_data[u], "photos")
                     THEN user_data[u]
                     ELSE Put(user_data[u], "photos", <<>>)
            IN  /\ SetData(u, Put(d, "photos", AddPhoto(d["photos"], e.file_id)))
                /\ IF e.file_id \notin Range(d["photos"])
                   THEN /\ Reply(u, e, "handle_photos",
                                 IF Len(d["photos"]) + 1 <= PHOTO_LIMIT
                                 THEN "photo" ELSE "limit", GET_PHOTOS)
                        /\ UNCHANGED conv
                   ELSE ReturnNow(u, GET_PHOTOS)
                /\ UNCHANGED <<admin, sid, accepted>>

(* src/bot.py:231-266 *)
handle_description(u, e) ==
    /\ Handler(conv[u], e) = "handle_description"
    /\ Taken(u)
    /\ IF e.text = BACK
       THEN /\ Reply(u, e, "handle_description", "back", GET_PHOTOS)
            /\ UNCHANGED <<conv, user_data, admin, sid, accepted>>
       ELSE IF e.text = CANCEL
       THEN CancelBody(u, e, "handle_description")
       ELSE IF e.text = NO_INFO_BUTTON
       THEN /\ SetData(u, Put(user_data[u], "description", NO_INFO))
            /\ Accept(u, "description", e.text)
            /\ Reply(u, e, "handle_description", "accept", GET_PRICE)
            /\ UNCHANGED <<conv, admin, sid>>
       ELSE IF ~validate_text(e.text, 2, 500)
       THEN /\ Reply(u, e, "handle_description", "reject", GET_DESCRIPTION)
            /\ UNCHANGED <<conv, user_data, admin, sid, accepted>>
       ELSE /\ SetData(u, Put(user_data[u], "description", e.text))
            /\ Accept(u, "description", e.text)
            /\ Reply(u, e, "handle_description", "accept", GET_PRICE)
            /\ UNCHANGED <<conv, admin, sid>>

(* src/bot.py:268-296 *)
handle_price(u, e) ==
    /\ Handler(conv[u], e) = "handle_price"
    /\ Taken(u)
    /\ IF e.text = BACK
       THEN /\ Reply(u, e, "handle_price", "back", GET_DESCRIPTION)
            /\ UNCHANGED <<conv, user_data, admin, sid, accepted>>
       ELSE IF e.text = CANCEL
       THEN CancelBody(u, e, "handle_price")
       ELSE IF validate_price_raises(e.text)
       THEN /\ Raise(u, e, "handle_price")
            /\ UNCHANGED <<conv, user_data, admin, sid, accepted>>
       ELSE IF ~validate_price(e.text)
       THEN /\ Reply(u, e, "handle_price", "reject", GET_PRICE)
            /\ UNCHANGED <<conv, user_data, admin, sid, accepted>>
       ELSE /\ SetData(u, Put(user_data[u], "price", e.text))
            /\ Accept(u, "price", e.text)
            /\ Reply(u, e, "handle_price", "accept", GET_CITY)
            /\ UNCHANGED <<conv, admin, sid>>

(* src/bot.py:298-326 *)
handle_city(u, e) ==
    /\ Handler(conv[u], e) = "handle_city"
    /\ Taken(u)
    /\ IF e.text = BACK
       THEN /\ Reply(u, e, "handle_city", "back", GET_PRICE)
            /\ UNCHANGED <<conv, user_data, admin, sid, accepted>>
       ELSE IF e.text = CANCEL
       THEN CancelBody(u, e, "handle_city")
       ELSE IF ~validate_text(e.text, 2, 50)
       THEN /\ Reply(u, e, "handle_city", "reject", GET_CITY)
            /\ UNCHANGED <<conv, user_data, admin, sid, accepted>>
       ELSE /\ SetData(u, Put(user_data[u], "city", e.text))
            /\ Accept(u, "city", e.text)
            /\ Reply(u, e, "handle_city", "accept", GET_DELIVERY)
            /\ UNCHANGED <<conv, admin, sid>>

\* handle_delivery with the next stages of the two options exchanged.
handle_delivery_swapped(u, e) ==
    /\ Handler(conv[u], e) = "handle_delivery"
    /\ Taken(u)
    /\ IF e.text = BACK
       THEN /\ Reply(u, e, "handle_delivery", "back", GET_CITY)
            /\ UNCHANGED <<conv, user_data, admin, sid, accepted>>
       ELSE IF e.text = CANCEL
       THEN CancelBody(u, e, "handle_delivery")
       ELSE IF e.text \notin {PICKUP, DELIVERY}
       THEN /\ Reply(u, e, "handle_delivery", "reject", GET_DELIVERY)
            /\ UNCHANGED <<conv, user_data, admin, sid, accepted>>
       ELSE /\ SetData(u, Put(user_data[u], "delivery", e.text))
            /\ Accept(u, "delivery", e.text)
            /\ IF e.text = PICKUP
               THEN Reply(u, e, "handle_delivery", "accept", GET_CONTACTS)
               ELSE Reply(u, e, "handle_delivery", "accept", GET_PICKUP_ADDRESS)
            /\ UNCHANGED <<conv, admin, sid>>

(* src/bot.py:328-363 *)
handle_delivery(u, e) ==
    /\ Handler(conv[u], e) = "handle_delivery"
    /\ Taken(u)
    /\ IF e.text = BACK
       THEN /\ Reply(u, e, "handle_delivery", "back", GET_CITY)
            /\ UNCHANGED <<conv, user_data, admin, sid, accepted>>
       ELSE IF e.text = CANCEL
       THEN CancelBody(u, e, "handle_delivery")
       ELSE IF e.text \notin {PICKUP, DELIVERY}
       THEN /\ Reply(u, e, "handle_delivery", "reject", GET_DELIVERY)
            /\ UNCHANGED <<conv, user_data, admin, sid, accepted>>
       ELSE /\ SetData(u, Put(user_data[u], "delivery", e.text))
            /\ Accept(u, "delivery", e.text)
            /\ IF e.text = PICKUP
               THEN Reply(u, e, "handle_delivery", "accept", GET_PICKUP_ADDRESS)
               ELSE Reply(u, e, "handle_delivery", "accept", GET_CONTACTS)
            /\ UNCHANGED <<conv, admin, sid>>

\* handle_pickup_address that stores the address under another key.
handle_pickup_address_other_key(u, e) ==
    /\ Handler(conv[u], e) = "handle_pickup_address"
    /\ Taken(u)
    /\ IF e.text = BACK
       THEN /\ Reply(u, e, "handle_pickup_address", "back", GET_DELIVERY)
            /\ UNCHANGED <<conv, user_data, admin, sid, accepted>>
       ELSE IF e.text = CANCEL
       THEN CancelBody(u, e, "handle_pickup_address")
       ELSE IF ~validate_text(e.text, 5, 200)
       THEN /\ Reply(u, e, "handle_pickup_address", "reject", GET_PICKUP_ADDRESS)
            /\ UNCHANGED <<conv, user_data, admin, sid, accepted>>
       ELSE /\ SetData(u, Put(user_data[u], "address", e.text))
            /\ Accept(u, "pickup_address", e.text)
            /\ Reply(u, e, "handle_pickup_address", "accept", GET_CONTACTS)
            /\ UNCHANGED <<conv, admin, sid>>

(* src/bot.py:365-393 *)
handle_pickup_address(u, e) ==
    /\ Handler(conv[u], e) = "handle_pickup_address"
    /\ Taken(u)
    /\ IF e.text = BACK
       THEN /\ Reply(u, e, "handle_pickup_address", "back", GET_DELIVERY)
            /\ UNCHANGED <<conv, user_data, admin, sid, accepted>>
       ELSE IF e.text = CANCEL
       THEN CancelBody(u, e, "handle_pickup_address")
       ELSE IF ~validate_text(e.text, 5, 200)
       THEN /\ Reply(u, e, "handle_pickup_address", "reject", GET_PICKUP_ADDRESS)
            /\ UNCHANGED <<conv, user_data, admin, sid, accepted>>
       ELSE /\ SetData(u, Put(user_data[u], "pickup_address", e.text))
            /\ Accept(u, "pickup_address", e.text)
            /\ Reply(u, e, "handle_pickup_address", "accept", GET_CONTACTS)
            /\ UNCHANGED <<conv, admin, sid>>

\* The keys the review summary and the administrator message read with
\* user_data[...]: a missing one raises KeyError.
SummaryKeys == {"user_name", "item_name", "category", "price", "city", "delivery"}

\* handle_contacts whose Back looks at the stored pickup address instead of
\* the delivery option.
handle_contacts_by_address(u, e) ==
    /\ Handler(conv[u], e) = "handle_contacts"
    /\ Taken(u)
    /\ IF e.text = BACK
       THEN /\ IF Get(user_data[u], "pickup_address", <<>>) # <<>>
               THEN Reply(u, e, "handle_contacts", "back", GET_PICKUP_ADDRESS)
               ELSE Reply(u, e, "handle_contacts", "back", GET_DELIVERY)
            /\ UNCHANGED <<conv, user_data, admin, sid, accepted>>
       ELSE IF e.text = CANCEL
       THEN CancelBody(u, e, "handle_contacts")
       ELSE IF ~validate_phone(e.text)
       THEN /\ Reply(u, e, "handle_contacts", "reject", GET_CONTACTS)
            /\ UNCHANGED <<conv, user_data, admin, sid, accepted>>
       ELSE /\ SetData(u, Put(user_data[u], "contacts", e.text))
            /\ Accept(u, "contacts", e.text)
            /\ IF SummaryKeys \subseteq DOMAIN user_data[u]
               THEN Reply(u, e, "handle_contacts", "accept", CONFIRM)
               ELSE Raise(u, e, "handle_contacts")
            /\ UNCHANGED <<conv, admin, sid>>

(* src/bot.py:395-450 *)
handle_contacts(u, e) ==
    /\ Handler(conv[u], e) = "handle_contacts"
    /\ Taken(u)
    /\ IF e.text = BACK
       THEN /\ IF Get(user_data[u], "delivery", <<>>) = PICKUP
               THEN Reply(u, e, "handle_contacts", "back", GET_PICKUP_ADDRESS)
               ELSE Reply(u, e, "handle_contacts", "back", GET_DELIVERY)
            /\ UNCHANGED <<conv, user_data, admin, sid, accepted>>
       ELSE IF e.text = CANCEL
       THEN CancelBody(u, e, "handle_contacts")
       ELSE IF ~validate_phone(e.text)
       THEN /\ Reply(u, e, "handle_contacts", "reject", GET_CONTACTS)
            /\ UNCHANGED <<conv, user_data, admin, sid, accepted>>
       ELSE /\ SetData(u, Put(user_data[u], "contacts", e.text))
            /\ Accept(u, "contacts", e.text)
            /\ IF SummaryKeys \subseteq DOMAIN user_data[u]
               THEN Reply(u, e, "handle_contacts", "accept", CONFIRM)
               ELSE Raise(u, e, "handle_contacts")
            /\ UNCHANGED <<conv, admin, sid>>

required_fields == {"item_name", "category", "price", "city", "delivery", "contacts"}

\* Message with the item name printed in the category line as well.
Message_item_as_category(d) ==
    LET keys == {"user_name", "item_name", "category", "description", "price",
                 "city", "delivery", "contacts"}
                \cup (IF Get(d, "pickup_address", <<>>) # <<>>
                      THEN {"pickup_address"} ELSE {})
    IN  [k \in keys |-> IF k = "description" THEN Get(d, "description", NO_INFO)
                        ELSE IF k = "category" THEN d["item_name"] ELSE d[k]]

\* The text sent to the administrator (src/bot.py:487-501), as the fields it
\* shows: the pickup address only if user_data.get('pickup_address') is truthy.
Message(d) ==
    LET keys == {"user_name", "item_name", "category", "description", "price",
                 "city", "delivery", "contacts"}
                \cup (IF Get(d, "pickup_address", <<>>) # <<>>
                      THEN {"pickup_address"} ELSE {})
    IN  [k \in keys |-> IF k = "description" THEN Get(d, "description", NO_INFO) ELSE d[k]]

\* MediaGroup without the slice: all photos are put in the media group.
MediaGroup_all(photos) == photos

\* context.user_data['photos'][:10] (src/bot.py:512)
MediaGroup(photos) == SubSeq(photos, 1, Min(Len(photos), MEDIA_LIMIT))

(* src/bot.py:452-508: up to the await of the send to the administrator *)
confirm_application(u, e) ==
    /\ Handler(conv[u], e) = "confirm_application"
    /\ Taken(u)
    /\ IF e.text = BACK
       THEN /\ Reply(u, e, "confirm_application", "back", GET_CONTACTS)
            /\ UNCHANGED <<conv, user_data, admin, sid, accepted>>
       ELSE IF e.text = CANCEL_CONFIRM
       THEN CancelBody(u, e, "confirm_application")
       ELSE IF e.text # SEND
       THEN /\ Reply(u, e, "confirm_application", "reject", CONFIRM)
            /\ UNCHANGED <<conv, user_data, admin, sid, accepted>>
       ELSE IF ~(required_fields \subseteq DOMAIN user_data[u])
       THEN /\ Reply(u, e, "confirm_application", "missing", END)
            /\ UNCHANGED <<conv, user_data, admin, sid, accepted>>
       ELSE IF ~Has(user_data[u], "user_name")
       THEN /\ Raise(u, e, "confirm_application")
            /\ UNCHANGED <<conv, user_data, admin, sid, accepted>>
       ELSE /\ Await(u, [Task(e, "confirm_application", conv[u], "confirm",
                               "send_message", END, sid[u])
                          EXCEPT !.text = Message(user_data[u])])
            /\ UNCHANGED <<conv, user_data, admin, sid, accepted>>

\* An update no handler of the conversation takes.
ignored(u, e) ==
    /\ Handler(conv[u], e) = "none"
    /\ Taken(u)
    /\ UNCHANGED <<conv, user_data, tasks, admin, sid, accepted>>

---------------------------------------------------------------------------
(* The awaited calls complete.  i is the position of the coroutine in      *)
(* tasks[u]; a send either succeeds or raises.                             *)
Suspended(u, i, pc) == i \in 1..Len(tasks[u]) /\ tasks[u][i].pc = pc

\* The handler returns: ConversationHandler stores the state it returned
\* (END removes the conversation).
Return(u, i, st) ==
    /\ conv' = [conv EXCEPT ![u] = st]
    /\ tasks' = [tasks EXCEPT ![u] = Remove(@, i)]

Goto(u, i, pc) == tasks' = [tasks EXCEPT ![u][i].pc = pc]

\* The except branch of every handler: await error_handler(update, context).
Except(u, i) == Goto(u, i, "error_handler")

reply_sent(u, i) ==
    /\ Suspended(u, i, "reply")
    /\ Return(u, i, tasks[u][i].ret)
    /\ UNCHANGED <<user_data, admin, sid, accepted, overlaps>>

reply_failed(u, i) ==
    /\ Suspended(u, i, "reply")
    /\ Except(u, i)
    /\ UNCHANGED <<conv, user_data, admin, sid, accepted, overlaps>>

\* error_handler after which the handler returns the stage it was entered at.
error_handler_stay(u, i) ==
    /\ Suspended(u, i, "error_handler")
    /\ Return(u, i, tasks[u][i].at)
    /\ UNCHANGED <<user_data, admin, sid, accepted, overlaps>>

(* src/bot.py:99-109: the notice is sent or not, the handler returns END *)
error_handler(u, i) ==
    /\ Suspended(u, i, "error_handler")
    /\ Return(u, i, END)
    /\ UNCHANGED <<user_data, admin, sid, accepted, overlaps>>

AdminText(u, t) ==
    [type |-> "text", user |-> u, sid |-> t.sid, text |-> t.text, media |-> <<>>]

AdminMedia(u, t) ==
    [type |-> "media", user |-> u, sid |-> t.sid, text |-> EmptyDict, media |-> t.media]

(* src/bot.py:504-516: the text reached the administrator *)
send_message_sent(u, i) ==
    /\ Suspended(u, i, "send_message")
    /\ admin' = Append(admin, AdminText(u, tasks[u][i]))
    /\ IF Get(user_data[u], "photos", <<>>) # <<>>
       THEN tasks' = [tasks EXCEPT ![u][i].pc = "send_media_group",
                                   ![u][i].media = MediaGroup(user_data[u]["photos"])]
       ELSE Goto(u, i, "reply_done")
    /\ UNCHANGED <<conv, user_data, sid, accepted, overlaps>>

send_message_failed(u, i) ==
    /\ Suspended(u, i, "send_message")
    /\ Except(u, i)
    /\ UNCHANGED <<conv, user_data, admin, sid, accepted, overlaps>>

(* src/bot.py:513-522: the photos reached the administrator *)
send_media_group_sent(u, i) ==
    /\ Suspended(u, i, "send_media_group")
    /\ admin' = Append(admin, AdminMedia(u, tasks[u][i]))
    /\ Goto(u, i, "reply_done")
    /\ UNCHANGED <<conv, user_data, sid, accepted, overlaps>>

send_media_group_failed(u, i) ==
    /\ Suspended(u, i, "send_media_group")
    /\ Except(u, i)
    /\ UNCHANGED <<conv, user_data, admin, sid, accepted, overlaps>>

(* src/bot.py:518-527 *)
reply_done_sent(u, i) ==
    /\ Suspended(u, i, "reply_done")
    /\ SetData(u, EmptyDict)
    /\ Return(u, i, END)
    /\ UNCHANGED <<admin, sid, accepted, overlaps>>

reply_done_failed(u, i) ==
    /\ Suspended(u, i, "reply_done")
    /\ Except(u, i)
    /\ UNCHANGED <<conv, user_data, admin, sid, accepted, overlaps>>

---------------------------------------------------------------------------
(* The updates a user sends.  What a user sends at a stage: the values the *)
(* stage accepts (one per field, and a second one), texts it does not      *)
(* accept, and the buttons of its keyboard.                                *)
SecondValues == {VASE, RARE, P007, OMSK, ELM_RD, PHONE2}

Values(st) ==
    CASE st = CHOOSE_CATEGORY -> {COINS, BACK}
      [] st = GET_ITEM_NAME -> {OLD_RUBLE, VASE}
      [] st = GET_DESCRIPTION -> {NO_INFO_BUTTON, RARE}
      [] st = GET_PRICE -> {P500, P007}
      [] st = GET_CITY -> {TOWN, OMSK}
      [] st = GET_DELIVERY -> {PICKUP, DELIVERY}
      [] st = GET_PICKUP_ADDRESS -> {MAIN_ST, ELM_RD}
      [] st = GET_CONTACTS -> {PHONE1, PHONE2}
      [] OTHER -> {}

Invalid(st) ==
    CASE st = GET_ITEM_NAME -> {ONE_CHAR, LONG_NAME}
      [] st = GET_PHOTOS -> {OK}
      [] st = GET_DESCRIPTION -> {ONE_CHAR, LONG_DESCRIPTION}
      [] st = GET_PRICE -> {P0, PNEG5, P12A, PSUP2}
      [] st = GET_CITY -> {ONE_CHAR, LONG_CITY}
      [] st = GET_DELIVERY -> {OK}
      [] st = GET_PICKUP_ADDRESS -> {ABC}
      [] st = GET_CONTACTS -> {SHORT_PHONE}
      [] st = CONFIRM -> {CANCEL, OK}
      [] st = END -> {OK, CANCEL}
      [] OTHER -> {}

Buttons(st) ==
    CASE st = END -> {}
      [] st = CHOOSE_CATEGORY -> {CANCEL}
      [] st = GET_PHOTOS -> {NEXT, BACK, CANCEL}
      [] st = CONFIRM -> {SEND, BACK, CANCEL_CONFIRM}
      [] OTHER -> {BACK, CANCEL}

TextsAt(st) == {Text(t) : t \in Values(st) \cup Invalid(st) \cup Buttons(st)}

AtCategory == TextsAt(CHOOSE_CATEGORY)
AtItemName == TextsAt(GET_ITEM_NAME)
AtPhotos == TextsAt(GET_PHOTOS) \cup {Text(CMD_CANCEL)}
                \cup {Photo(r) : r \in 1..(MaxPhotoRefs + 1)}
AtDescription == TextsAt(GET_DESCRIPTION)
AtPrice == TextsAt(GET_PRICE)
AtCity == TextsAt(GET_CITY)
AtDelivery == TextsAt(GET_DELIVERY)
AtPickupAddress == TextsAt(GET_PICKUP_ADDRESS)
AtContacts == TextsAt(GET_CONTACTS)
AtConfirm == TextsAt(CONFIRM)
Unhandled == TextsAt(END) \cup {Text(CMD_CANCEL), Photo(1)}

ConfirmsInFlight ==
    Cardinality({<<u, i>> \in Users \X (1..MaxInFlight) :
                    i <= Len(tasks[u]) /\ tasks[u][i].kind = "confirm"
                    /\ tasks[u][i].pc \in {"send_message", "send_media_group"}})

\* A submission is a text and a media group: room in the bounded record of
\* the administrator chat for one more, after those on their way.
AdminRoom == Len(admin) + 2 * ConfirmsInFlight + 2 <= MaxAdmin

(* Whether user u sends update e now, for a kind of user m:                *)
(*   m.second  : second values are sent as well                            *)
(*   m.invalid : texts a stage does not accept are sent as well            *)
(*   m.photos  : the number of distinct photos the user has                *)
(*   m.starts  : the number of times the user sends /start                 *)
(*   m.hasty   : the user sends an update while up to MaxInFlight - 1      *)
(*               earlier ones are still being handled, MaxOverlaps times   *)
(*               in a run; otherwise the user waits for the answer         *)
(* Photos are numbered in the order the user first sends them: the user    *)
(* sends a photo already sent or the next new one.  /start is sent until   *)
(* the administrator has received something: a run follows the sessions of *)
(* a user up to the first submission that arrives.                         *)
Sends(u, e, m) ==
    /\ \/ tasks[u] = <<>>
       \/ m.hasty /\ Len(tasks[u]) < MaxInFlight /\ overlaps < MaxOverlaps
    /\ e.type = "photo" =>
          IF conv[u] = GET_PHOTOS
          THEN e.file_id <= Min(Len(Get(user_data[u], "photos", <<>>)) + 1, m.photos)
          ELSE e.file_id = 1
    /\ e.type = "text" =>
          /\ e.text = SEND => AdminRoom
          /\ e.text = CMD_START => sid[u] < m.starts /\ admin = <<>>
          /\ e.text \in SecondValues => m.second
          /\ e.text \in Invalid(conv[u]) => m.invalid

\* The user sends an update and ConversationHandler hands it to the handler
\* check_update chose.
Handle(u, m) ==
    \/ \E e \in {Text(CMD_START)} : Sends(u, e, m) /\ start(u, e)
    \/ \E e \in {Text(CMD_CANCEL)} : Sends(u, e, m) /\ cancel(u, e)
    \/ \E e \in AtCategory : Sends(u, e, m) /\ handle_category(u, e)
    \/ \E e \in AtItemName : Sends(u, e, m) /\ handle_item_name(u, e)
    \/ \E e \in AtPhotos : Sends(u, e, m) /\ handle_photos(u, e)
    \/ \E e \in AtDescription : Sends(u, e, m) /\ handle_description(u, e)
    \/ \E e \in AtPrice : Sends(u, e, m) /\ handle_price(u, e)
    \/ \E e \in AtCity : Sends(u, e, m) /\ handle_city(u, e)
    \/ \E e \in AtDelivery : Sends(u, e, m) /\ handle_delivery(u, e)
    \/ \E e \in AtPickupAddress : Sends(u, e, m) /\ handle_pickup_address(u, e)
    \/ \E e \in AtContacts : Sends(u, e, m) /\ handle_contacts(u, e)
    \/ \E e \in AtConfirm : Sends(u, e, m) /\ confirm_application(u, e)
    \/ \E e \in Unhandled : Sends(u, e, m) /\ ignored(u, e)

Resume(u, i) ==
    \/ reply_sent(u, i)
    \/ reply_failed(u, i)
    \/ error_handler(u, i)
    \/ send_message_sent(u, i)
    \/ send_message_failed(u, i)
    \/ send_media_group_sent(u, i)
    \/ send_media_group_failed(u, i)
    \/ reply_done_sent(u, i)
    \/ reply_done_failed(u, i)

(* One user whose updates are handled one at a time.                       *)
Next ==
    \/ Handle("u1", [second |-> TRUE, invalid |-> TRUE,
                     photos |-> MaxFlowPhotos, hasty |-> FALSE,
                     starts |-> MaxStarts])
    \/ Resume("u1", 1)

Spec == Init /\ [][Next]_vars

(* The same user sending up to MaxPhotoRefs distinct photos.               *)
NextPhotos ==
    \/ Handle("u1", [second |-> FALSE, invalid |-> TRUE,
                     photos |-> MaxPhotoRefs, hasty |-> FALSE,
                     starts |-> MaxStarts])
    \/ Resume("u1", 1)

SpecPhotos == Init /\ [][NextPhotos]_vars

(* One user whose updates are handled concurrently                         *)
(* (concurrent_updates(True), src/bot.py:552-557).                         *)
NextConcurrent ==
    \/ Handle("u1", [second |-> FALSE, invalid |-> FALSE,
                     photos |-> MaxFlowPhotos, hasty |-> TRUE,
                     starts |-> MaxStarts])
    \/ \E i \in 1..MaxInFlight : Resume("u1", i)

SpecConcurrent == Init /\ [][NextConcurrent]_vars

(* Two users at the same time, each handled one update at a time: u1 goes  *)
(* through the whole conversation, u2 starts once, has no photo to send   *)
(* and stays in the stages up to GET_PHOTOS, sending rejected texts too.   *)
Kind(u) ==
    IF u = "u1"
    THEN [second |-> FALSE, invalid |-> FALSE, photos |-> 1, hasty |-> FALSE,
          starts |-> MaxStartsTwoUsers]
    ELSE [second |-> FALSE, invalid |-> TRUE, photos |-> 0, hasty |-> FALSE,
          starts |-> 1]

NextTwoUsers == \E u \in Users : Handle(u, Kind(u)) \/ Resume(u, 1)

SpecTwoUsers == Init /\ [][NextTwoUsers]_vars

---------------------------------------------------------------------------
(* Shapes of a step, for the properties below.                             *)

\* A handler of u was entered in this step and is now suspended at an await.
Entered(u) == Len(tasks'[u]) = Len(tasks[u]) + 1

NewTask(u) == tasks'[u][Len(tasks'[u])]

\* The handler at position i returned in this step.
Returned(u, i) == i \in 1..Len(tasks[u]) /\ tasks'[u] = Remove(tasks[u], i)

\* The awaited send of the handler at position i raised in this step.
Failed(u, i) ==
    /\ i \in 1..Len(tasks[u])
    /\ Len(tasks'[u]) = Len(tasks[u])
    /\ tasks[u][i].pc # "error_handler"
    /\ tasks'[u][i].pc = "error_handler"

NoPhotos(d) == Len(Get(d, "photos", <<>>)) = 0

---------------------------------------------------------------------------
(* C1.  The inputs each stage rejects, listed independently of the         *)
(* validators: too short or too long texts, prices that are not a positive *)
(* decimal number, texts outside the option sets of GET_DELIVERY and       *)
(* CONFIRM, a malformed phone number, and the advance button with no photo.*)
C1_RejectedAt(st, d) ==
    CASE st = GET_ITEM_NAME -> {ONE_CHAR, LONG_NAME}
      [] st = GET_PHOTOS -> IF NoPhotos(d) THEN {NEXT} ELSE {}
      [] st = GET_DESCRIPTION -> {ONE_CHAR, LONG_DESCRIPTION}
      [] st = GET_PRICE -> {P0, PNEG5, P12A}
      [] st = GET_CITY -> {ONE_CHAR, LONG_CITY}
      [] st = GET_DELIVERY -> {OK}
      [] st = GET_PICKUP_ADDRESS -> {ABC}
      [] st = GET_CONTACTS -> {SHORT_PHONE}
      [] st = CONFIRM -> {OK, CANCEL}
      [] OTHER -> {}

C1_Rejects(t, d) ==
    t.update.type = "text" /\ t.update.text \in C1_RejectedAt(t.at, d)

---------------------------------------------------------------------------
(* C2.  The stage each stage goes back to and the field each stage writes. *)
C2_BackTargets(st) ==
    CASE st = GET_ITEM_NAME -> {CHOOSE_CATEGORY}
      [] st = GET_PHOTOS -> {GET_ITEM_NAME}
      [] st = GET_DESCRIPTION -> {GET_PHOTOS}
      [] st = GET_PRICE -> {GET_DESCRIPTION}
      [] st = GET_CITY -> {GET_PRICE}
      [] st = GET_DELIVERY -> {GET_CITY}
      [] st = GET_PICKUP_ADDRESS -> {GET_DELIVERY}
      [] st = GET_CONTACTS -> {GET_PICKUP_ADDRESS, GET_DELIVERY}
      [] st = CONFIRM -> {GET_CONTACTS}
      [] OTHER -> {}

C2_FieldOf(st) ==
    CASE st = GET_ITEM_NAME -> {"item_name"}
      [] st = GET_PHOTOS -> {"photos"}
      [] st = GET_DESCRIPTION -> {"description"}
      [] st = GET_PRICE -> {"price"}
      [] st = GET_CITY -> {"city"}
      [] st = GET_DELIVERY -> {"delivery"}
      [] st = GET_PICKUP_ADDRESS -> {"pickup_address"}
      [] st = GET_CONTACTS -> {"contacts"}
      [] OTHER -> {}

\* C2: at every stage S but CHOOSE_CATEGORY the Back button makes the handler
\* go to the backward target of S, and afterwards the field S writes is not
\* in the fields of the session.
C2_BackRemovesField ==
    [][\A u \in Users :
          (/\ Entered(u)
           /\ NewTask(u).update = Text(BACK)
           /\ NewTask(u).at \in Stages \ {CHOOSE_CATEGORY})
             => /\ NewTask(u).pc = "reply"
                /\ NewTask(u).ret \in C2_BackTargets(NewTask(u).at)
                /\ C2_FieldOf(NewTask(u).at) \cap DOMAIN user_data'[u] = {}
      ]_vars

---------------------------------------------------------------------------
\* C3: the Cancel text, at every stage from CHOOSE_CATEGORY to CONFIRM, ends
\* the session as cancelled and clears all fields; once the conversation has
\* ended, only /start changes anything for the user.
C3_CancelEndsSession ==
    [][\A u \in Users :
          /\ (/\ Entered(u)
              /\ NewTask(u).update = Text(CANCEL)
              /\ NewTask(u).at \in Stages)
                => /\ NewTask(u).kind = "cancel"
                   /\ NewTask(u).ret = END
                   /\ user_data'[u] = EmptyDict
          /\ (/\ conv[u] = END
              /\ tasks[u] = <<>>
              /\ <<conv[u], user_data[u], tasks[u]>>' # <<conv[u], user_data[u], tasks[u]>>)
                => /\ Entered(u)
                   /\ NewTask(u).update = Text(CMD_START)
                   /\ NewTask(u).ret = CHOOSE_CATEGORY
      ]_vars

---------------------------------------------------------------------------
\* The texts the administrator has received from session s of user u.
TextsFrom(u, s) ==
    {i \in 1..Len(admin) :
        admin[i].type = "text" /\ admin[i].user = u /\ admin[i].sid = s}

MediaFrom(u, s) ==
    {i \in 1..Len(admin) :
        admin[i].type = "media" /\ admin[i].user = u /\ admin[i].sid = s}

\* C4: a session yields no more than one submission to the administrator,
\* however many confirm updates the user sends for it.
C4_AtMostOneSubmission ==
    \A u \in Users : \A s \in 1..(MaxStarts + 1) : Cardinality(TextsFrom(u, s)) <= 1

---------------------------------------------------------------------------
(* C5.  The step in which the administrator receives a text.               *)
TextArrives == Len(admin') = Len(admin) + 1 /\ admin'[Len(admin')].type = "text"

\* C5: the text confirm_application hands to the transport shows, for
\* category, item_name, price, city, delivery and contacts, the value most
\* recently accepted at the stage of that field, and the pickup address most
\* recently accepted when the accepted delivery option is pickup; the text
\* the administrator receives is the text that was handed over.
C5_SubmissionCarriesAcceptedValues ==
    [][/\ \A u \in Users :
             Entered(u) /\ NewTask(u).kind = "confirm" =>
                LET m == NewTask(u).text
                    a == accepted[u]
                IN  /\ \A f \in {"category", "item_name", "price", "city",
                                 "delivery", "contacts"} :
                          /\ f \in DOMAIN a
                          /\ f \in DOMAIN m
                          /\ m[f] = a[f]
                    /\ a["delivery"] = PICKUP =>
                          /\ "pickup_address" \in DOMAIN a
                          /\ "pickup_address" \in DOMAIN m
                          /\ m["pickup_address"] = a["pickup_address"]
       /\ TextArrives =>
             \E u \in Users : \E i \in 1..MaxInFlight :
                /\ Suspended(u, i, "send_message")
                /\ tasks[u][i].kind = "confirm"
                /\ admin'[Len(admin')].user = u
                /\ admin'[Len(admin')].text = tasks[u][i].text
      ]_vars

\* The path Coins / Old Ruble / photo 1 / next / no information / 500 / Town /
\* pickup / 1 Main St / +79161234567 / send has reached the administrator.
C5_Witness ==
    /\ Len(admin) = 2
    /\ admin[1].type = "text"
    /\ admin[1].text = [user_name |-> user_name("u1"), item_name |-> OLD_RUBLE,
                        category |-> COINS, description |-> NO_INFO,
                        price |-> P500, city |-> TOWN, delivery |-> PICKUP,
                        pickup_address |-> MAIN_ST, contacts |-> PHONE1]
    /\ admin[2].type = "media"
    /\ admin[2].media = <<1>>

---------------------------------------------------------------------------
\* C6: in every reachable state the photo list of a session holds at most 10
\* references; photos sent after the tenth are not appended.
C6_AtMostTenPhotos ==
    \A u \in Users : Len(Get(user_data[u], "photos", <<>>)) <= 10

---------------------------------------------------------------------------
(* C7.  The step in which the administrator receives a media group.        *)
MediaArrives == Len(admin') = Len(admin) + 1 /\ admin'[Len(admin')].type = "media"

---------------------------------------------------------------------------
NoDuplicates(seq) == \A i, j \in 1..Len(seq) : seq[i] = seq[j] => i = j

Photos(d) == Get(d, "photos", <<>>)

\* C8: the photo list never holds a reference twice, and no step changes a
\* photo list other than by emptying it or by appending one reference that
\* is not in it: a photo whose reference is in the list leaves it as it is.
C8_NoDuplicatePhotos ==
    [][\A u \in Users :
          /\ NoDuplicates(Photos(user_data'[u]))
          /\ Photos(user_data'[u]) # Photos(user_data[u]) =>
                \/ Photos(user_data'[u]) = <<>>
                \/ \E r \in 1..(MaxPhotoRefs + 1) :
                      /\ r \notin Range(Photos(user_data[u]))
                      /\ Photos(user_data'[u]) = Append(Photos(user_data[u]), r)
      ]_vars

\* The user is at the photo stage with three photos accumulated and nothing
\* in flight: each of the three sent again is handled without a change.
C8_Witness ==
    /\ conv["u1"] = GET_PHOTOS
    /\ tasks["u1"] = <<>>
    /\ Photos(user_data["u1"]) = <<1, 2, 3>>

---------------------------------------------------------------------------
\* C9: the administrator never has the text of a session without its photos,
\* unless the photos are still on their way.
C9_TextNeverWithoutPhotos ==
    \A u \in Users : \A s \in 1..(MaxStarts + 1) :
        TextsFrom(u, s) # {} =>
            \/ MediaFrom(u, s) # {}
            \/ \E i \in 1..Len(tasks[u]) :
                  /\ tasks[u][i].sid = s
                  /\ tasks[u][i].pc = "send_media_group"

---------------------------------------------------------------------------
(* C10.  The handler that awaits the send of a submission is the task of   *)
(* kind "confirm".                                                         *)
Dispatching(u, i) == i \in 1..Len(tasks[u]) /\ tasks[u][i].kind = "confirm"

\* C10 as stated: when the handler that handed a submission to the transport
\* returns, after a success or a failure, the session is at no stage and its
\* fields are cleared.
C10_SessionDestroyed ==
    [][\A u \in Users : \A i \in 1..MaxInFlight :
          Dispatching(u, i) /\ Returned(u, i) =>
              /\ conv'[u] \notin Stages
              /\ user_data'[u] = EmptyDict
      ]_vars

\* C10: when the handler that handed a submission to the transport returns,
\* the session is at no stage; its fields are cleared if the sends and the
\* answer to the user succeeded and are as they were if one of them failed.
\* The handler sends its text once: the text arrives in a step that takes the
\* handler past the send, and the handler never goes back to it.
C10_DispatchEndsSession ==
    [][/\ \A u \in Users : \A i \in 1..MaxInFlight :
             Dispatching(u, i) =>
                IF Returned(u, i)
                THEN /\ conv'[u] = END
                     /\ IF tasks[u][i].pc = "reply_done"
                        THEN user_data'[u] = EmptyDict
                        ELSE /\ tasks[u][i].pc = "error_handler"
                             /\ user_data'[u] = user_data[u]
                     /\ admin' = admin
                ELSE (tasks[u][i].pc # "send_message" /\ Len(tasks'[u]) >= Len(tasks[u]))
                        => tasks'[u][i].pc # "send_message"
       /\ TextArrives =>
             \E u \in Users : \E i \in 1..MaxInFlight :
                /\ Suspended(u, i, "send_message")
                /\ Dispatching(u, i)
                /\ Len(tasks'[u]) = Len(tasks[u])
                /\ tasks'[u][i].pc \in {"send_media_group", "reply_done"}
      ]_vars

\* The send of the photos failed after the text had arrived: the session has
\* ended and its fields are still there.
C10_Witness ==
    /\ conv["u1"] = END
    /\ tasks["u1"] = <<>>
    /\ Len(admin) = 1
    /\ admin[1].type = "text"
    /\ required_fields \subseteq DOMAIN user_data["u1"]

---------------------------------------------------------------------------
(* C11.  The session of a user: the stage, the fields and the handlers     *)
(* running for the user.                                                   *)
Session(u) == <<conv[u], user_data[u], tasks[u]>>

\* C11: a step that handles an update of one user, or resumes a handler of
\* that user, leaves the stage and the fields of every other user as they
\* were, whatever the other user is doing.
C11_SessionsIsolated ==
    [][\A a \in Users : \A b \in Users \ {a} :
          Session(a)' # Session(a) =>
              /\ conv'[b] = conv[b]
              /\ user_data'[b] = user_data[b]
              /\ tasks'[b] = tasks[b]
      ]_vars

\* u1 is at the confirmation stage with one submission on its way while u2
\* is in a conversation of its own, with fields of its own.
C11_Witness ==
    /\ conv["u1"] = CONFIRM
    /\ Len(tasks["u1"]) = 1
    /\ tasks["u1"][1].kind = "confirm"
    /\ conv["u2"] = GET_PHOTOS
    /\ Has(user_data["u2"], "item_name")
    /\ user_data["u2"] # user_data["u1"]

---------------------------------------------------------------------------
\* C12: the updates of a user are handled one after the other: no handler is
\* entered for a user while an earlier handler of that user has not returned,
\* so no two handlers of a user were entered at the same stored stage.
C12_OneTransitionAtATime ==
    \A u \in Users : Len(tasks[u]) <= 1

---------------------------------------------------------------------------
(* C13.  A price as the claim defines it: decimal digits only, with a      *)
(* value greater than zero, that is, with a digit other than 0.            *)
C13_DecimalDigits == {"0", "1", "2", "3", "4", "5", "6", "7", "8", "9"}

C13_ValidPrice(t) ==
    /\ t # <<>>
    /\ \A i \in 1..Len(t) : t[i] \in C13_DecimalDigits
    /\ \E i \in 1..Len(t) : t[i] # "0"

\* C13: at GET_PRICE a text that is no button is accepted (price written, next
\* stage GET_CITY) if and only if it consists of decimal digits only and its
\* value is greater than zero; every other text is answered with the re-prompt,
\* the stage stays GET_PRICE, nothing is written and the session stays active.
C13_PriceAcceptedIffPositiveDecimal ==
    [][\A u \in Users :
          (/\ Entered(u)
           /\ NewTask(u).h = "handle_price"
           /\ NewTask(u).update.text \notin {BACK, CANCEL})
             => LET t == NewTask(u)
                IN  IF C13_ValidPrice(t.update.text)
                    THEN /\ t.kind = "accept"
                         /\ t.pc = "reply"
                         /\ t.ret = GET_CITY
                         /\ user_data'[u] = Put(user_data[u], "price", t.update.text)
                    ELSE /\ t.kind = "reject"
                         /\ t.pc = "reply"
                         /\ t.ret = GET_PRICE
                         /\ user_data'[u] = user_data[u]
      ]_vars

---------------------------------------------------------------------------
(* C14.  The fields a submission requires, as the claim lists them.        *)
C14_Required(d) ==
    {"item_name", "category", "price", "city", "delivery", "contacts"}
        \cup (IF Get(d, "delivery", <<>>) = PICKUP THEN {"pickup_address"} ELSE {})

\* C14: when the send button is handled at CONFIRM and a required field is
\* missing (the pickup address included when delivery is pickup), the handler
\* sends nothing to the administrator and ends the conversation.
C14_MissingFieldNotDispatched ==
    [][\A u \in Users :
          (/\ Entered(u)
           /\ NewTask(u).h = "confirm_application"
           /\ NewTask(u).update = Text(SEND)
           /\ ~(C14_Required(user_data[u]) \subseteq DOMAIN user_data[u]))
             => /\ NewTask(u).kind \in {"missing", "fault"}
                /\ NewTask(u).pc # "send_message"
                /\ NewTask(u).ret = END
                /\ admin' = admin
      ]_vars

---------------------------------------------------------------------------
---------------------------------------------------------------------------
(* C16, C17.  The delivery option stored for a user.                       *)
Delivery(d) == Get(d, "delivery", <<>>)

---------------------------------------------------------------------------
---------------------------------------------------------------------------
\* C18: at GET_PHOTOS the Next button leads to GET_DESCRIPTION if and only if
\* at least one photo is stored; with no photo the stage stays GET_PHOTOS; in
\* both cases nothing is written.  A photo, and a text that is none of the
\* buttons, never lead to another stage.
C18_NextNeedsAPhoto ==
    [][\A u \in Users :
          /\ (Entered(u) /\ NewTask(u).h = "handle_photos")
                => LET t == NewTask(u)
                   IN  /\ t.update = Text(NEXT) =>
                             /\ user_data'[u] = user_data[u]
                             /\ t.pc = "reply"
                             /\ t.ret = IF Len(Photos(user_data[u])) >= 1
                                        THEN GET_DESCRIPTION ELSE GET_PHOTOS
                       /\ (t.update.type = "photo" \/ t.update.text \notin {BACK, CANCEL, NEXT})
                             => /\ t.pc = "reply"
                                /\ t.ret = GET_PHOTOS
          /\ \A i \in 1..Len(tasks[u]) :
                (/\ tasks[u][i].h = "handle_photos"
                 /\ tasks[u][i].pc = "reply"
                 /\ Returned(u, i))
                   => conv'[u] = tasks[u][i].ret
          /\ (conv[u] = GET_PHOTOS /\ tasks'[u] = tasks[u]) => conv'[u] = GET_PHOTOS
      ]_vars

\* The Next button was pressed with no photo stored: the answer is being sent
\* and the stage to return is GET_PHOTOS.
C18_Witness ==
    /\ Len(tasks["u1"]) = 1
    /\ tasks["u1"][1].h = "handle_photos"
    /\ tasks["u1"][1].update = Text(NEXT)
    /\ tasks["u1"][1].ret = GET_PHOTOS
    /\ Photos(user_data["u1"]) = <<>>
    /\ conv["u1"] = GET_PHOTOS

---------------------------------------------------------------------------
\* C19: at CHOOSE_CATEGORY every text that is no command and not the Cancel
\* button, offered on the keyboard or not, is handled by handle_category,
\* stored as it is as category, and leads to GET_ITEM_NAME.
C19_AnyCategoryAccepted ==
    [][/\ \A t \in {COINS, BACK, OK, RARE, ONE_CHAR, LONG_NAME, CANCEL_CONFIRM} :
             Handler(CHOOSE_CATEGORY, Text(t)) = "handle_category"
       /\ \A u \in Users :
             (/\ Entered(u)
              /\ NewTask(u).at = CHOOSE_CATEGORY
              /\ NewTask(u).update \notin {Text(CANCEL), Text(CMD_START), Text(CMD_CANCEL)})
                => /\ NewTask(u).h = "handle_category"
                   /\ NewTask(u).kind = "accept"
                   /\ NewTask(u).pc = "reply"
                   /\ NewTask(u).ret = GET_ITEM_NAME
                   /\ user_data'[u] = Put(user_data[u], "category", NewTask(u).update.text)
      ]_vars

\* A text that is not on the category keyboard (the Back button of the later
\* stages) was sent at CHOOSE_CATEGORY: it is stored as the category.
C19_Witness ==
    /\ conv["u1"] = GET_ITEM_NAME
    /\ tasks["u1"] = <<>>
    /\ Get(user_data["u1"], "category", <<>>) = BACK

---------------------------------------------------------------------------
(* C20.  What the handler of an accepted input stored: the field of its    *)
(* stage and the value it was given.                                       *)
C20_FieldOf(st) == IF st = CHOOSE_CATEGORY THEN {"category"} ELSE C2_FieldOf(st)

C20_Value(t) ==
    IF t.at = GET_DESCRIPTION /\ t.update.text = NO_INFO_BUTTON
    THEN NO_INFO ELSE t.update.text

\* C20: when a handler returns after a fault (a send raised, or the handler
\* raised itself), the conversation has ended and the fields are empty or do
\* not hold what the handler stored: neither the value of an accepted input
\* in the field of its stage nor the photo it appended.
C20_FaultLeavesNoWrite ==
    [][\A u \in Users : \A i \in 1..MaxInFlight :
          (Returned(u, i) /\ tasks[u][i].pc = "error_handler")
             => LET t == tasks[u][i]
                IN  /\ conv'[u] = END
                    /\ \/ user_data'[u] = EmptyDict
                       \/ /\ t.kind = "accept" =>
                                \A k \in C20_FieldOf(t.at) :
                                   Get(user_data'[u], k, <<>>) # C20_Value(t)
                          /\ t.kind \in {"photo", "limit"} =>
                                t.update.file_id \notin Range(Photos(user_data'[u]))
      ]_vars

---------------------------------------------------------------------------
\* C21: the text the administrator receives shows a pickup address if and
\* only if the delivery option it shows is pickup, and once the delivery
\* option (not pickup) has been accepted at GET_DELIVERY no pickup address is
\* left in the fields.
C21_PickupAddressIffPickup ==
    [][/\ TextArrives =>
             LET m == admin'[Len(admin')]
             IN  "pickup_address" \in DOMAIN m.text <=> m.text["delivery"] = PICKUP
       /\ \A u \in Users :
             (/\ Entered(u)
              /\ NewTask(u).h = "handle_delivery"
              /\ NewTask(u).update = Text(DELIVERY))
                => ~Has(user_data'[u], "pickup_address")
      ]_vars

---------------------------------------------------------------------------
(* C22, C23.  Between the clearing of the fields by cancel or start and    *)
(* the return of that handler the stage stored is still the old one.       *)
Clearing(u) ==
    \E i \in 1..Len(tasks[u]) : tasks[u][i].kind \in {"cancel", "start"}

\* C22: whenever a user is at CONFIRM (and not being cancelled or restarted),
\* category, item_name, user_name, price, city, delivery and contacts are all
\* stored, and pickup_address is stored if delivery is pickup; the send button
\* is never answered by the missing-field branch nor by an exception.
C22_NoStageSkipped ==
    \A u \in Users :
        /\ (conv[u] = CONFIRM /\ ~Clearing(u)) =>
              /\ {"category", "item_name", "user_name", "price", "city",
                  "delivery", "contacts"} \subseteq DOMAIN user_data[u]
              /\ Delivery(user_data[u]) = PICKUP => Has(user_data[u], "pickup_address")
        /\ \A i \in 1..Len(tasks[u]) :
              tasks[u][i].h = "confirm_application" =>
                 tasks[u][i].kind \notin {"missing", "fault"}

\* The user is at CONFIRM on the pickup branch after the delivery option was
\* changed: all fields are stored, the address included.
C22_Witness ==
    /\ conv["u1"] = CONFIRM
    /\ tasks["u1"] = <<>>
    /\ Delivery(user_data["u1"]) = PICKUP
    /\ Get(user_data["u1"], "pickup_address", <<>>) = ELM_RD
    /\ Get(user_data["u1"], "contacts", <<>>) = PHONE2

---------------------------------------------------------------------------
\* C23: whenever a user is at GET_DESCRIPTION or a later stage (and not being
\* cancelled or restarted), the photo list is stored and not empty; when the
\* text of a submission has arrived, a media group of at least one photo is
\* sent next.
C23_PhotosBeforeDescription ==
    [][/\ \A u \in Users :
             (conv[u] \in GET_DESCRIPTION..CONFIRM /\ ~Clearing(u))' =>
                /\ Has(user_data[u], "photos")'
                /\ Len(Photos(user_data[u]))' >= 1
       /\ TextArrives =>
             \E u \in Users : \E i \in 1..MaxInFlight :
                /\ Suspended(u, i, "send_message")
                /\ Len(tasks'[u]) = Len(tasks[u])
                /\ tasks'[u][i].pc = "send_media_group"
                /\ Len(tasks'[u][i].media) >= 1
      ]_vars

=============================================================================
